---------------------------- MODULE Spec2Model ----------------------------
(***************************************************************************)
(* A model of Chapter2/toy.cpp: the Kaleidoscope lexer (GetTok), the       *)
(* recursive-descent / operator-precedence parser and the top-level        *)
(* driver (MainLoop).                                                      *)
(*                                                                         *)
(* Characters are their ASCII codes and tokens are the ints GetTok         *)
(* returns: a code in 0..255 for an unknown character, a negative number   *)
(* of enum Token otherwise.  Every C function is an operator on a record   *)
(* s holding the file's static variables (LastChar, IdentifierStr, NumVal, *)
(* CurTok, BinopPrecedence), the unread part of stdin (input) and two      *)
(* observation fields: err, the lines LogError wrote to stderr, and ntok,  *)
(* the number of GetTok calls made.                                        *)
(***************************************************************************)
EXTENDS Integers, Sequences, FiniteSets, TLC

VARIABLES
    LastChar,         \* static int LastChar of GetTok
    input,            \* the characters of stdin not yet read by getchar
    IdentifierStr,    \* static std::string IdentifierStr
    NumVal,           \* static double NumVal
    CurTok,           \* static int CurTok
    BinopPrecedence,  \* static std::map<char, int> BinopPrecedence
    pc,               \* where the caller of the file's functions stands
    last,             \* what the last operation did (observation only)
    toks,             \* the tokens GetTok returned so far (observation only)
    origin            \* what the text on stdin was made from (observation only)

vars == <<LastChar, input, IdentifierStr, NumVal, CurTok, BinopPrecedence,
          pc, last, toks, origin>>

---------------------------------------------------------------------------
(* Bounds of the model *)

\* longest character string fed to the tokenizer alone
MaxLexLen == 5
\* calls of the tokenizer made after the one that consumed the last character
MaxExtraCalls == 2
\* most words of a word-built text given to the driver
MaxWords == 4
\* most words following the head word of a text given to one parse function
MaxTail == 4
\* most parameters / arguments of a generated prototype / call
MaxArgs == 2
\* most binary operators of a generated expression
MaxOps == 2

---------------------------------------------------------------------------
(* Characters *)

\* the code of a character literal of the source
Ord(c) ==
    CASE c = "\n" -> 10 [] c = "\r" -> 13 [] c = " " -> 32 [] c = "#" -> 35
      [] c = "(" -> 40 [] c = ")" -> 41 [] c = "*" -> 42 [] c = "+" -> 43
      [] c = "," -> 44 [] c = "-" -> 45 [] c = "." -> 46
      [] c = "0" -> 48 [] c = "1" -> 49 [] c = "2" -> 50 [] c = "3" -> 51
      [] c = ";" -> 59 [] c = "<" -> 60
      [] c = "_" -> 95
      [] c = "a" -> 97 [] c = "d" -> 100 [] c = "e" -> 101 [] c = "f" -> 102
      [] c = "n" -> 110 [] c = "o" -> 111 [] c = "p" -> 112 [] c = "r" -> 114
      [] c = "t" -> 116
      [] c = "x" -> 120 [] c = "y" -> 121

\* a string literal of the source, as its sequence of codes
Str(t) == [i \in DOMAIN t |-> Ord(t[i])]

EOF == -1

isspace(c) == c \in {9, 10, 11, 12, 13, 32}
isdigit(c) == c \in 48..57
isalpha(c) == c \in (65..90) \cup (97..122)
isalnum(c) == isalpha(c) \/ isdigit(c)
isascii(c) == c \in 0..127

---------------------------------------------------------------------------
(* enum Token *)

tok_eof == -1
tok_def == -2
tok_extern == -3
tok_identifier == -4
tok_number == -5

---------------------------------------------------------------------------
(* Call by value *)

\* C evaluates an expression once and names the value: Let(v, F) is F of
\* the value of v
Let(v, F(_)) == CHOOSE r \in {F(x) : x \in {v}} : TRUE

---------------------------------------------------------------------------
(* Lexer *)

\* LastChar = getchar()
ReadChar(s) ==
    IF s.input = <<>>
    THEN [s EXCEPT !.LastChar = EOF]
    ELSE [s EXCEPT !.LastChar = Head(s.input), !.input = Tail(s.input)]

\* while(isspace(LastChar)) LastChar = getchar();
RECURSIVE SkipSpace(_)
SkipSpace(s0) ==
    Let(s0, LAMBDA s : IF isspace(s.LastChar) THEN SkipSpace(ReadChar(s)) ELSE s)

\* while(isalnum((LastChar = getchar()))) IdentifierStr += LastChar;
RECURSIVE ScanIdentifier(_)
ScanIdentifier(s) ==
    Let(ReadChar(s), LAMBDA t :
        IF isalnum(t.LastChar)
        THEN ScanIdentifier([t EXCEPT !.IdentifierStr = Append(@, t.LastChar)])
        ELSE t)

\* do { NumStr += LastChar; LastChar = getchar(); } while(isdigit || '.')
RECURSIVE ScanNumber(_, _)
ScanNumber(s, NumStr) ==
    Let(ReadChar(s), LAMBDA t :
        IF isdigit(t.LastChar) \/ t.LastChar = Ord(".")
        THEN ScanNumber(t, Append(NumStr, s.LastChar))
        ELSE [s |-> t, NumStr |-> Append(NumStr, s.LastChar)])

\* the digits at the head of a string
RECURSIVE DigitPrefix(_)
DigitPrefix(str0) ==
    Let(str0, LAMBDA str :
        IF str # <<>> /\ isdigit(Head(str))
        THEN <<Head(str)>> \o DigitPrefix(Tail(str))
        ELSE <<>>)

\* the natural number a string of digits denotes
RECURSIVE DigitsValue(_)
DigitsValue(ds0) ==
    Let(ds0, LAMBDA ds :
        IF ds = <<>> THEN 0
        ELSE 10 * DigitsValue(SubSeq(ds, 1, Len(ds) - 1)) + (ds[Len(ds)] - 48))

RECURSIVE Pow10(_)
Pow10(n) == IF n = 0 THEN 1 ELSE 10 * Pow10(n - 1)

\* the value m / 10^e in lowest terms of the exponent
RECURSIVE Normalize(_, _)
Normalize(m0, e0) ==
    Let(<<m0, e0>>, LAMBDA v :
        IF v[1] = 0 THEN [m |-> 0, e |-> 0]
        ELSE IF v[2] > 0 /\ v[1] % 10 = 0 THEN Normalize(v[1] \div 10, v[2] - 1)
        ELSE [m |-> v[1], e |-> v[2]])

\* strtod(NumStr.c_str(), nullptr) on a string of digits and '.': the value
\* of the longest prefix  digits [ '.' digits ]  holding a digit, 0 if none.
\* The double is kept as the decimal m / 10^e.
FractionDigits(rest) ==
    IF rest # <<>> /\ Head(rest) = Ord(".") THEN DigitPrefix(Tail(rest)) ELSE <<>>

strtod(NumStr) ==
    Let(DigitPrefix(NumStr), LAMBDA ip :
    Let(FractionDigits(SubSeq(NumStr, Len(ip) + 1, Len(NumStr))), LAMBDA fp :
        IF ip = <<>> /\ fp = <<>> THEN [m |-> 0, e |-> 0]
        ELSE Normalize(DigitsValue(ip) * Pow10(Len(fp)) + DigitsValue(fp), Len(fp))))

\* do { LastChar = getchar(); } while(LastChar != EOF && != '\n' && != '\r')
RECURSIVE SkipComment(_)
SkipComment(s) ==
    Let(ReadChar(s), LAMBDA t :
        IF t.LastChar # EOF /\ t.LastChar # Ord("\n") /\ t.LastChar # Ord("\r")
        THEN SkipComment(t)
        ELSE t)

\* GetTok once the identifier is read into IdentifierStr (lines 47-51)
KeywordOrIdentifier(t) ==
    IF t.IdentifierStr = Str(<<"d", "e", "f">>)
    THEN [s |-> t, tok |-> tok_eof]
    ELSE IF t.IdentifierStr = Str(<<"e", "x", "t", "e", "r", "n">>)
    THEN [s |-> t, tok |-> tok_extern]
    ELSE [s |-> t, tok |-> tok_identifier]

\* GetTok once the number is read into NumStr (lines 61-62)
NumberRead(n) == [s |-> [n.s EXCEPT !.NumVal = strtod(n.NumStr)], tok |-> tok_number]

\* a GetTok that reports end of input with the wrong enumerator
RECURSIVE GetTok_WrongEof(_)
GetTok_WrongEof(s0) ==
    Let(SkipSpace(s0), LAMBDA s :
        IF isalpha(s.LastChar) THEN
            Let(ScanIdentifier([s EXCEPT !.IdentifierStr = <<s.LastChar>>]), KeywordOrIdentifier)
        ELSE IF isdigit(s.LastChar) \/ s.LastChar = Ord(".") THEN
            Let(ScanNumber(s, <<>>), NumberRead)
        ELSE
            Let(IF s.LastChar = Ord("#") THEN SkipComment(s) ELSE s, LAMBDA c :
            IF s.LastChar = Ord("#") /\ c.LastChar # EOF THEN GetTok_WrongEof(c)
            ELSE IF c.LastChar = EOF THEN [s |-> c, tok |-> tok_def]
            ELSE [s |-> ReadChar(c), tok |-> c.LastChar]))

\* a GetTok that hands the character ending a comment out as a token
GetTok_CommentEnd(s0) ==
    Let(SkipSpace(s0), LAMBDA s :
        IF isalpha(s.LastChar) THEN
            Let(ScanIdentifier([s EXCEPT !.IdentifierStr = <<s.LastChar>>]), KeywordOrIdentifier)
        ELSE IF isdigit(s.LastChar) \/ s.LastChar = Ord(".") THEN
            Let(ScanNumber(s, <<>>), NumberRead)
        ELSE
            Let(IF s.LastChar = Ord("#") THEN SkipComment(s) ELSE s, LAMBDA c :
            IF c.LastChar = EOF THEN [s |-> c, tok |-> tok_eof]
            ELSE [s |-> ReadChar(c), tok |-> c.LastChar]))

\* static int GetTok(): the token, and the statics as it leaves them
RECURSIVE GetTok(_)
GetTok(s0) ==
    Let(SkipSpace(s0), LAMBDA s :
        IF isalpha(s.LastChar) THEN
            Let(ScanIdentifier([s EXCEPT !.IdentifierStr = <<s.LastChar>>]), KeywordOrIdentifier)
        ELSE IF isdigit(s.LastChar) \/ s.LastChar = Ord(".") THEN
            Let(ScanNumber(s, <<>>), NumberRead)
        ELSE
            Let(IF s.LastChar = Ord("#") THEN SkipComment(s) ELSE s, LAMBDA c :
            IF s.LastChar = Ord("#") /\ c.LastChar # EOF THEN GetTok(c)
            ELSE IF c.LastChar = EOF THEN [s |-> c, tok |-> tok_eof]
            ELSE [s |-> ReadChar(c), tok |-> c.LastChar]))

---------------------------------------------------------------------------
(* AST (Parse Tree) *)

\* a null std::unique_ptr
Null == [kind |-> "nullptr"]

NumberExprAST(Val) == [kind |-> "Number", Val |-> Val]
VariableExprAST(Name) == [kind |-> "Variable", Name |-> Name]
BinaryExprAST(Op, LHS, RHS) == [kind |-> "Binary", Op |-> Op, LHS |-> LHS, RHS |-> RHS]
CallExprAST(Callee, Args) == [kind |-> "Call", Callee |-> Callee, Args |-> Args]
PrototypeAST(Name, Args) == [kind |-> "Prototype", Name |-> Name, Args |-> Args]
FunctionAST(Proto, Body) == [kind |-> "Function", Proto |-> Proto, Body |-> Body]

---------------------------------------------------------------------------
(* Parser *)

\* static int GetNextToken() { return CurTok = GetTok(); }
\* (g is what GetTok returned)
SetCurTok(g) == [g.s EXCEPT !.CurTok = g.tok, !.ntok = @ + 1]

GetNextToken(s) == Let(GetTok(s), SetCurTok)

\* static int GetTokPrecedence(): BinopPrecedence[CurTok] inserts a 0 entry
\* for a key the map does not hold
GetTokPrecedence(s) ==
    IF ~isascii(s.CurTok) THEN [s |-> s, prec |-> -1]
    ELSE
        LET m == IF s.CurTok \in DOMAIN s.BinopPrecedence
                 THEN s.BinopPrecedence
                 ELSE s.BinopPrecedence @@ (s.CurTok :> 0)
            TokPrec == m[s.CurTok]
        IN  [s |-> [s EXCEPT !.BinopPrecedence = m],
             prec |-> IF TokPrec <= 0 THEN -1 ELSE TokPrec]

\* LogError / LogErrorP: one line on stderr, and a null result
LogError(s, msg) == [s |-> [s EXCEPT !.err = Append(@, msg)], r |-> Null]

\* numberexpr ::= number
ParseNumberExpr(s) == [s |-> GetNextToken(s), r |-> NumberExprAST(s.NumVal)]

Failed(s) == [s |-> s, r |-> Null]

\* The part of a function that follows a call is an operator of its own,
\* taking the call's result.

RECURSIVE ParseExpression(_)
RECURSIVE ParseArgs(_, _)
RECURSIVE ParseBinOpRHS(_, _, _)

\* ParseParenExpr once its operand V is parsed, reporting the failure of
\* the operand a second time
ParenClose_Relog(V) ==
    IF V.r = Null THEN LogError(V.s, "expected expression")
    ELSE IF V.s.CurTok # Ord(")") THEN LogError(V.s, "expected ')'")
    ELSE [s |-> GetNextToken(V.s), r |-> V.r]

\* ParseParenExpr once its operand V is parsed (lines 203-207)
ParenClose(V) ==
    IF V.r = Null THEN Failed(V.s)
    ELSE IF V.s.CurTok # Ord(")") THEN LogError(V.s, "expected ')'")
    ELSE [s |-> GetNextToken(V.s), r |-> V.r]

\* parenexpr ::= '(' expression ')'
ParseParenExpr(s) == Let(ParseExpression(GetNextToken(s)), ParenClose)

\* one round of the while(true) of ParseIdentifierExpr once the argument Arg
\* is parsed (lines 225-233): ok = FALSE where the code returns null
ArgsNext(Arg, Args) ==
    IF Arg.r = Null THEN [s |-> Arg.s, ok |-> FALSE, Args |-> Args]
    ELSE IF Arg.s.CurTok = Ord(")")
    THEN [s |-> Arg.s, ok |-> TRUE, Args |-> Append(Args, Arg.r)]
    ELSE IF Arg.s.CurTok # Ord(",")
    THEN [s |-> LogError(Arg.s, "Expected ')' or ',' in argument list").s,
          ok |-> FALSE, Args |-> Args]
    ELSE ParseArgs(GetNextToken(Arg.s), Append(Args, Arg.r))

\* the while(true) of ParseIdentifierExpr, entered with CurTok on the first
\* token of an argument
ParseArgs(s, Args) == Let(ParseExpression(s), LAMBDA Arg : ArgsNext(Arg, Args))

\* ParseIdentifierExpr once the argument list a is parsed (lines 237-238)
MakeCall(IdName, a) ==
    IF ~a.ok THEN Failed(a.s)
    ELSE [s |-> GetNextToken(a.s), r |-> CallExprAST(IdName, a.Args)]

\* ParseIdentifierExpr once '(' is eaten (lines 222-238)
CallRest(IdName, s2) ==
    Let(IF s2.CurTok # Ord(")") THEN ParseArgs(s2, <<>>)
        ELSE [s |-> s2, ok |-> TRUE, Args |-> <<>>],
        LAMBDA a : MakeCall(IdName, a))

\* ParseIdentifierExpr once the identifier is eaten (lines 218-238)
IdentifierRest(IdName, s1) ==
    IF s1.CurTok # Ord("(") THEN [s |-> s1, r |-> VariableExprAST(IdName)]
    ELSE Let(GetNextToken(s1), LAMBDA s2 : CallRest(IdName, s2))

\* identifierexpr ::= identifier | identifier '(' expression* ')'
ParseIdentifierExpr(s) ==
    Let(GetNextToken(s), LAMBDA s1 : IdentifierRest(s.IdentifierStr, s1))

\* primary ::= identifierexpr | numberexpr | parenexpr
ParsePrimary(s0) ==
    Let(s0, LAMBDA s :
        CASE s.CurTok = tok_identifier -> ParseIdentifierExpr(s)
          [] s.CurTok = tok_number -> ParseNumberExpr(s)
          [] s.CurTok = Ord("(") -> ParseParenExpr(s)
          [] OTHER -> LogError(s, "Unknown token when expecting an expression"))

\* ParseBinOpRHS once the right operand R is complete (lines 281-286):
\* merge LHS and RHS, and go round the loop
BinOpMerge(BinOp, ExprPrec, LHS, R) ==
    IF R.r = Null THEN Failed(R.s)
    ELSE ParseBinOpRHS(R.s, ExprPrec, BinaryExprAST(BinOp, LHS, R.r))

\* ParseBinOpRHS once the primary RHS after the operator is parsed, n being
\* GetTokPrecedence() on what follows it (lines 274-280)
BinOpPending(BinOp, TokPrec, ExprPrec, LHS, RHS, n) ==
    IF RHS.r = Null THEN Failed(RHS.s)
    ELSE Let(IF TokPrec < n.prec
             THEN ParseBinOpRHS(n.s, TokPrec + 1, RHS.r)
             ELSE [s |-> n.s, r |-> RHS.r],
             LAMBDA R : BinOpMerge(BinOp, ExprPrec, LHS, R))

\* ParseBinOpRHS once the primary RHS after the operator is parsed
BinOpAfterRHS(BinOp, TokPrec, ExprPrec, LHS, RHS) ==
    Let(GetTokPrecedence(RHS.s),
        LAMBDA n : BinOpPending(BinOp, TokPrec, ExprPrec, LHS, RHS, n))

\* binoprhs ::= ('+' primary)*
\* p is the first GetTokPrecedence(); line 270 "eats" the operator with a
\* second GetTokPrecedence(), which leaves CurTok where it is
BinOpRest(p, ExprPrec, LHS) ==
    IF p.prec < ExprPrec THEN [s |-> p.s, r |-> LHS]
    ELSE Let(ParsePrimary(GetTokPrecedence(p.s).s),
             LAMBDA RHS : BinOpAfterRHS(p.s.CurTok, p.prec, ExprPrec, LHS, RHS))

ParseBinOpRHS(s, ExprPrec, LHS) ==
    Let(GetTokPrecedence(s), LAMBDA p : BinOpRest(p, ExprPrec, LHS))

\* ParseExpression once its first primary LHS is parsed (lines 294-296)
ExpressionRest(LHS) ==
    IF LHS.r = Null THEN Failed(LHS.s) ELSE ParseBinOpRHS(LHS.s, 0, LHS.r)

\* expression ::= primary binoprhs
ParseExpression(s) == Let(ParsePrimary(s), ExpressionRest)

\* while(GetNextToken() == tok_identifier) ArgNames.push_back(IdentifierStr);
\* t is the statics after the GetNextToken() of the loop's test
RECURSIVE ParseArgNames(_, _)
ArgNamesNext(t, ArgNames) ==
    IF t.CurTok = tok_identifier
    THEN ParseArgNames(t, Append(ArgNames, t.IdentifierStr))
    ELSE [s |-> t, ArgNames |-> ArgNames]

ParseArgNames(s, ArgNames) ==
    Let(GetNextToken(s), LAMBDA t : ArgNamesNext(t, ArgNames))

\* ParsePrototype once the parameter names a are read, not looking at what
\* ends the list
PrototypeClose_NoClose(FnName, a) ==
    [s |-> GetNextToken(a.s), r |-> PrototypeAST(FnName, a.ArgNames)]

\* ParsePrototype once the parameter names a are read (lines 318-324)
PrototypeClose(FnName, a) ==
    IF a.s.CurTok # Ord(")") THEN LogError(a.s, "Expected ')' in prototype")
    ELSE [s |-> GetNextToken(a.s), r |-> PrototypeAST(FnName, a.ArgNames)]

\* ParsePrototype once the function name is eaten (lines 309-324)
PrototypeRest(FnName, s1) ==
    IF s1.CurTok # Ord("(") THEN LogError(s1, "Expected '(' in prototype")
    ELSE Let(ParseArgNames(s1, <<>>), LAMBDA a : PrototypeClose(FnName, a))

\* prototype ::= id '(' id* ')'
ParsePrototype(s0) ==
    Let(s0, LAMBDA s :
        IF s.CurTok # tok_identifier
        THEN LogError(s, "Expected function name in prototype")
        ELSE Let(GetNextToken(s), LAMBDA s1 : PrototypeRest(s.IdentifierStr, s1)))

\* ParseDefinition once the body E is parsed (lines 333-336)
MakeFunction(Proto, E) ==
    IF E.r # Null THEN [s |-> E.s, r |-> FunctionAST(Proto, E.r)]
    ELSE Failed(E.s)

\* definition ::= 'def' prototype expression
\* (line 333: the body is parsed by ParseDefinition itself)
RECURSIVE ParseDefinition(_)
DefinitionBody(Proto) ==
    IF Proto.r = Null THEN Failed(Proto.s)
    ELSE Let(ParseDefinition(Proto.s), LAMBDA E : MakeFunction(Proto.r, E))

ParseDefinition(s) == Let(ParsePrototype(GetNextToken(s)), DefinitionBody)

\* external ::= 'extern' prototype
ParseExtern(s) == ParsePrototype(GetNextToken(s))

\* toplevelexpr ::= expression
WrapTopLevel(E) ==
    IF E.r # Null
    THEN [s |-> E.s,
          r |-> FunctionAST(PrototypeAST(Str(<<"_", "_", "a", "n", "o", "n", "_",
                                                "e", "x", "p", "r">>), <<>>), E.r)]
    ELSE Failed(E.s)

ParseTopLevelExpr(s) == Let(ParseExpression(s), WrapTopLevel)

---------------------------------------------------------------------------
(* Top-Level parsing *)

\* what a handler reports: the statics as it leaves them, whether the parse
\* gave a node, the node, and the GetTok calls the parse itself made
Handled(p, name) ==
    [s |-> IF p.r # Null THEN p.s ELSE GetNextToken(p.s),   \* skip token for error recovery
     op |-> name, ok |-> p.r # Null, r |-> p.r, parseTok |-> p.s.ntok]

\* the same without the recovery call
Unrecovered(p, name) ==
    [s |-> p.s, op |-> name, ok |-> p.r # Null, r |-> p.r, parseTok |-> p.s.ntok]

HandleDefinition(s) ==
    Let(ParseDefinition(s), LAMBDA p : Handled(p, "HandleDefinition"))

\* a HandleExtern that does not skip a token after a failure
HandleExtern_NoSkip(s) ==
    Let(ParseExtern(s), LAMBDA p : Unrecovered(p, "HandleExtern"))

HandleExtern(s) ==
    Let(ParseExtern(s), LAMBDA p : Handled(p, "HandleExtern"))

\* a HandleTopLevelExpression that does not skip a token after a failure
HandleTopLevelExpression_NoSkip(s) ==
    Let(ParseTopLevelExpr(s), LAMBDA p : Unrecovered(p, "HandleTopLevelExpression"))

HandleTopLevelExpression(s) ==
    Let(ParseTopLevelExpr(s), LAMBDA p : Handled(p, "HandleTopLevelExpression"))

\* one iteration of the while(true) of MainLoop on the lookahead CurTok
MainLoopStep(s) ==
    CASE s.CurTok = tok_eof ->
            [s |-> s, op |-> "return", ok |-> TRUE, r |-> Null, parseTok |-> 0]
      [] s.CurTok = Ord(";") ->           \* ignore top-level semicolons
            [s |-> GetNextToken(s), op |-> "semicolon", ok |-> TRUE, r |-> Null,
             parseTok |-> 0]
      [] s.CurTok = tok_def -> HandleDefinition(s)
      [] s.CurTok = tok_extern -> HandleExtern(s)
      [] OTHER -> HandleTopLevelExpression(s)

---------------------------------------------------------------------------
(* The state of the file's statics *)

\* std::map<char, int> BinopPrecedence as static initialisation leaves it
EmptyBinopPrecedence == <<>>

\* the table with its entries for < + - * installed
DefaultBinopPrecedence ==
    (Ord("<") :> 10) @@ (Ord("+") :> 20) @@ (Ord("-") :> 20) @@ (Ord("*") :> 40)

\* the statics as operators take them, with the observation fields cleared
Cur ==
    [LastChar |-> LastChar, input |-> input, IdentifierStr |-> IdentifierStr,
     NumVal |-> NumVal, CurTok |-> CurTok, BinopPrecedence |-> BinopPrecedence,
     err |-> <<>>, ntok |-> 0]

\* the statics as an operator left them
Commit(s) ==
    /\ LastChar' = s.LastChar
    /\ input' = s.input
    /\ IdentifierStr' = s.IdentifierStr
    /\ NumVal' = s.NumVal
    /\ CurTok' = s.CurTok
    /\ BinopPrecedence' = s.BinopPrecedence

\* static initialisation, with text on stdin and the operators of tables
\* as the caller may have installed them
StaticInit(text, tables) ==
    /\ LastChar = Ord(" ")
    /\ input = text
    /\ IdentifierStr = <<>>
    /\ NumVal = [m |-> 0, e |-> 0]
    /\ CurTok = 0
    /\ BinopPrecedence \in tables

Tables == {EmptyBinopPrecedence, DefaultBinopPrecedence}

\* the statics of a tokenizer that has read nothing of text yet
LexStart(text) ==
    [LastChar |-> Ord(" "), input |-> text, IdentifierStr |-> <<>>,
     NumVal |-> [m |-> 0, e |-> 0], CurTok |-> 0,
     BinopPrecedence |-> EmptyBinopPrecedence, err |-> <<>>, ntok |-> 0]

NoOp ==
    [op |-> "none", ok |-> TRUE, r |-> Null, err |-> <<>>, ntok |-> 0,
     parseTok |-> 0, fails |-> FALSE, oks |-> FALSE]

---------------------------------------------------------------------------
(* Texts *)

RECURSIVE Flatten(_)
Flatten(ws) == IF ws = <<>> THEN <<>> ELSE Head(ws) \o Flatten(Tail(ws))

\* the words separated by single spaces
RECURSIVE Spaced(_)
Spaced(ws) ==
    IF ws = <<>> THEN <<>>
    ELSE IF Len(ws) = 1 THEN ws[1]
    ELSE ws[1] \o <<Ord(" ")>> \o Spaced(Tail(ws))

SeqsUpTo(S, n) == UNION {[1..k -> S] : k \in 0..n}

W_def == Str(<<"d", "e", "f">>)
W_extern == Str(<<"e", "x", "t", "e", "r", "n">>)
W_x == Str(<<"x">>)
W_y == Str(<<"y">>)
W_f == Str(<<"f">>)
W_1 == Str(<<"1">>)
W_lp == Str(<<"(">>)
W_rp == Str(<<")">>)
W_comma == Str(<<",">>)

\* words that follow the head word of a text given to one parse function
TailWords == {W_x, W_y, W_1, W_lp, W_rp, W_comma, W_def}

\* head words of such a text
HeadWords == {W_extern, W_def, W_x, W_lp}

IsIdentifierWord(w) == w \in {W_x, W_y, W_f}

\* pieces of the texts given to the tokenizer alone
LexPieces ==
    {W_x, W_1, W_def, Str(<<"+">>), Str(<<" ">>), Str(<<"#">>), Str(<<"\n">>),
     Str(<<".">>)}

\* pieces of the texts given to the driver
DriverPieces ==
    {W_def \o Str(<<" ">>), W_extern \o Str(<<" ">>), W_x, W_1, W_lp, W_rp,
     Str(<<";">>), Str(<<"+">>)}

---------------------------------------------------------------------------
(* The tokenizer alone: a caller that calls GetTok again and again *)

InitLex ==
    \E ps \in SeqsUpTo(LexPieces, MaxLexLen) :
        /\ StaticInit(Flatten(ps), {EmptyBinopPrecedence})
        /\ pc = "Lex"
        /\ last = NoOp
        /\ toks = <<>>
        /\ origin = [kind |-> "pieces", text |-> Flatten(ps), n |-> Len(ps)]

\* the token g.tok with what the statics hold for it
Token(g) == [tok |-> g.tok, IdentifierStr |-> g.s.IdentifierStr, NumVal |-> g.s.NumVal]

GotTok(g) == Commit(g.s) /\ toks' = Append(toks, Token(g))

CallGetTok ==
    /\ pc = "Lex"
    /\ Len(toks) < origin.n + 1 + MaxExtraCalls
    /\ \E g \in {GetTok(Cur)} : GotTok(g)
    /\ UNCHANGED <<pc, last, origin>>

NextLex == CallGetTok

SpecLex == InitLex /\ [][NextLex]_vars

---------------------------------------------------------------------------
(* The driver: the lookahead is primed, then MainLoop runs *)

Init ==
    \E ps \in SeqsUpTo(DriverPieces, MaxWords) :
        /\ StaticInit(Flatten(ps), Tables)
        /\ pc = "Start"
        /\ last = NoOp
        /\ toks = <<>>
        /\ origin = [kind |-> "pieces", text |-> Flatten(ps), n |-> Len(ps)]

Primed(s) ==
    /\ Commit(s)
    /\ last' = [NoOp EXCEPT !.op = "GetNextToken", !.ntok = s.ntok]

\* the caller of MainLoop reads the first token
Prime ==
    /\ pc = "Start"
    /\ \E s \in {GetNextToken(Cur)} : Primed(s)
    /\ pc' = "Ready"
    /\ UNCHANGED <<toks, origin>>

\* the statics, the caller's position and the observations after an
\* iteration that did h
Iterated(h) ==
    /\ Commit(h.s)
    /\ pc' = IF h.op = "return" THEN "Done" ELSE "Ready"
    /\ last' = [op |-> h.op, ok |-> h.ok, r |-> h.r, err |-> h.s.err,
                ntok |-> h.s.ntok, parseTok |-> h.parseTok,
                fails |-> last.fails \/ ~h.ok,
                oks |-> last.oks \/ (h.ok /\ h.r # Null)]

MainLoop ==
    /\ pc = "Ready"
    /\ \E h \in {MainLoopStep(Cur)} : Iterated(h)
    /\ UNCHANGED <<toks, origin>>

Next == Prime \/ MainLoop

Spec == Init /\ [][Next]_vars

\* MainLoop is a loop of a single thread: it keeps running while it can
LiveSpec == Spec /\ WF_vars(Next)

---------------------------------------------------------------------------
(* Well-formed texts, written out from the tree they denote *)

Leaves == {NumberExprAST([m |-> 1, e |-> 0]), VariableExprAST(W_x)}

BinOps == {Ord("+"), Ord("-"), Ord("*"), Ord("<")}

\* the expressions with exactly n binary operators
RECURSIVE ExprsWithOps(_)
ExprsWithOps(n) ==
    IF n = 0 THEN Leaves
    ELSE UNION {{BinaryExprAST(op, l, r) :
                    op \in BinOps, l \in ExprsWithOps(i), r \in ExprsWithOps(n - 1 - i)} :
                i \in 0..(n - 1)}

ExprsUpTo(n) == UNION {ExprsWithOps(k) : k \in 0..n}

Calls == {CallExprAST(W_f, args) : args \in SeqsUpTo(ExprsUpTo(1), MaxArgs)}

Prototypes == {PrototypeAST(W_f, ps) : ps \in SeqsUpTo({W_x, W_y}, MaxArgs)}

Functions == {FunctionAST(p, b) : p \in Prototypes, b \in ExprsUpTo(1)}

\* the binding strength of standard arithmetic: * over + and -, these over <
StdPrec(op) ==
    CASE op = Ord("*") -> 3 [] op = Ord("+") -> 2 [] op = Ord("-") -> 2
      [] op = Ord("<") -> 1

RECURSIVE Unparse(_)
RECURSIVE UnparseArgs(_)

\* an operand of an operator of strength p, in parentheses where it would
\* otherwise be read as part of another operand
Operand(e, p, right) ==
    IF e.kind = "Binary" /\ (StdPrec(e.Op) < p \/ (right /\ StdPrec(e.Op) = p))
    THEN Str(<<"(">>) \o Unparse(e) \o Str(<<")">>)
    ELSE Unparse(e)

UnparseArgs(args) ==
    IF args = <<>> THEN <<>>
    ELSE IF Len(args) = 1 THEN Unparse(args[1])
    ELSE Unparse(args[1]) \o Str(<<",">>) \o UnparseArgs(Tail(args))

Unparse(e) ==
    CASE e.kind = "Number" -> <<Ord("0") + e.Val.m>>
      [] e.kind = "Variable" -> e.Name
      [] e.kind = "Binary" ->
            Operand(e.LHS, StdPrec(e.Op), FALSE) \o <<e.Op>>
                \o Operand(e.RHS, StdPrec(e.Op), TRUE)
      [] e.kind = "Call" ->
            e.Callee \o Str(<<"(">>) \o UnparseArgs(e.Args) \o Str(<<")">>)

UnparsePrototype(p) == p.Name \o Str(<<"(">>) \o Spaced(p.Args) \o Str(<<")">>)

UnparseExtern(p) == W_extern \o Str(<<" ">>) \o UnparsePrototype(p)

UnparseFunction(f) ==
    W_def \o Str(<<" ">>) \o UnparsePrototype(f.Proto) \o Str(<<" ">>) \o Unparse(f.Body)

\* what a text is made from: the tree it denotes, or its words
Origins ==
    {[kind |-> "expr", ast |-> e, words |-> <<>>, text |-> Unparse(e)] :
        e \in ExprsUpTo(MaxOps) \cup Calls}
    \cup {[kind |-> "def", ast |-> f, words |-> <<>>, text |-> UnparseFunction(f)] :
        f \in Functions}
    \cup {[kind |-> "extern", ast |-> q, words |-> <<>>, text |-> UnparseExtern(q)] :
        q \in Prototypes}
    \cup {[kind |-> "words", ast |-> Null, words |-> <<h>> \o ws,
           text |-> Spaced(<<h>> \o ws)] :
        h \in HeadWords, ws \in SeqsUpTo(TailWords, MaxTail)}

---------------------------------------------------------------------------
(* One parse function alone: the lookahead is primed, then a caller calls *)
(* one entry point of the parser and looks at what it returned            *)

InitParse ==
    \E o \in Origins :
        /\ StaticInit(o.text, Tables)
        /\ pc = "Start"
        /\ last = NoOp
        /\ toks = <<>>
        /\ origin = o

Returned(name, p) ==
    /\ Commit(p.s)
    /\ pc' = "Returned"
    /\ last' = [op |-> name, ok |-> p.r # Null, r |-> p.r, err |-> p.s.err,
                ntok |-> p.s.ntok, parseTok |-> p.s.ntok,
                fails |-> FALSE, oks |-> FALSE]
    /\ UNCHANGED <<toks, origin>>

CallParseExpression ==
    /\ pc = "Ready"
    /\ \E p \in {ParseExpression(Cur)} : Returned("ParseExpression", p)

\* as ParsePrimary calls it: on an identifier
CallParseIdentifierExpr ==
    /\ pc = "Ready"
    /\ CurTok = tok_identifier
    /\ \E p \in {ParseIdentifierExpr(Cur)} : Returned("ParseIdentifierExpr", p)

\* on the keyword def: the lookahead is what GetTok returned for it
CallParseDefinition ==
    /\ pc = "Ready"
    /\ IdentifierStr = W_def
    /\ \E p \in {ParseDefinition(Cur)} : Returned("ParseDefinition", p)

\* as HandleExtern calls it: on tok_extern
CallParseExtern ==
    /\ pc = "Ready"
    /\ CurTok = tok_extern
    /\ \E p \in {ParseExtern(Cur)} : Returned("ParseExtern", p)

\* as the default case of MainLoop calls it
CallParseTopLevelExpr ==
    /\ pc = "Ready"
    /\ CurTok \notin {tok_eof, Ord(";"), tok_def, tok_extern}
    /\ \E p \in {ParseTopLevelExpr(Cur)} : Returned("ParseTopLevelExpr", p)

NextParse ==
    \/ Prime
    \/ CallParseExpression
    \/ CallParseIdentifierExpr
    \/ CallParseDefinition
    \/ CallParseExtern
    \/ CallParseTopLevelExpr

SpecParse == InitParse /\ [][NextParse]_vars

---------------------------------------------------------------------------
(* Properties *)

\* the table holds the default entries for < + - *
HasDefaults ==
    \A op \in DOMAIN DefaultBinopPrecedence :
        op \in DOMAIN BinopPrecedence /\ BinopPrecedence[op] = DefaultBinopPrecedence[op]

\* C1: with the default precedence table, ParseExpression on the text of a
\* well-formed expression over numbers, identifiers, + - * < and parentheses
\* returns the tree of standard precedence climbing: the tree the text was
\* written out from.
C1_PrecedenceClimbing ==
    (pc = "Returned" /\ last.op = "ParseExpression" /\ origin.kind = "expr"
        /\ HasDefaults)
    => last.r = origin.ast

\* C2: ParseDefinition, started on the def of a well-formed definition
\* def name(p1 ... pn) expr, returns the Function of the prototype
\* (name, [p1..pn]) and the tree of expr.
C2_DefinitionParsed ==
    (pc = "Returned" /\ last.op = "ParseDefinition" /\ origin.kind = "def"
        /\ HasDefaults)
    => last.r = origin.ast

\* C3: whenever MainLoop has returned, every character of the input has
\* been read by the tokenizer: nothing is left unread on stdin.
C3_DoneOnlyAtEndOfInput ==
    pc = "Done" => input = <<>>

Handlers == {"HandleDefinition", "HandleExtern", "HandleTopLevelExpression"}

\* C4: after a handler whose parse failed, the driver has made exactly one
\* call of the tokenizer beyond those of the parse itself, and the loop is
\* back at its head (it has not returned).
C4_FailureSkipsOneToken ==
    (last.op \in Handlers /\ ~last.ok)
    => (last.ntok = last.parseTok + 1 /\ pc = "Ready")

\* a construct that follows a failed one is parsed
C4_Witness ==
    last.op \in Handlers /\ last.ok /\ last.fails /\ pc = "Ready"

ParseCalls ==
    {"ParseExpression", "ParseIdentifierExpr", "ParseDefinition", "ParseExtern",
     "ParseTopLevelExpr"}

\* C5: a parse attempt that fails has written exactly one diagnostic line,
\* and one that succeeds has written none.
C5_OneDiagnosticPerFailure ==
    (pc = "Returned" /\ last.op \in ParseCalls)
    => /\ last.ok => last.err = <<>>
       /\ ~last.ok => Len(last.err) = 1

\* a failure found inside a parenthesis, forwarded by the levels around it
C5_Witness ==
    /\ pc = "Returned"
    /\ last.op = "ParseTopLevelExpr"
    /\ ~last.ok
    /\ origin.kind = "words"
    /\ origin.words[1] = W_lp
    /\ last.ntok >= 2
    /\ last.err = <<"Unknown token when expecting an expression">>

\* C6: the driver loop ends on every input, and every iteration that does
\* not return has made at least one call of the tokenizer.
C6_Terminates ==
    /\ <>(pc = "Done")
    /\ [][(pc = "Ready" /\ pc' = "Ready") => last'.ntok >= 1]_vars

\* the loop has returned after iterations that failed and that succeeded
C6_Witness == pc = "Done" /\ last.fails /\ last.oks

\* C7: ParseIdentifierExpr on an identifier followed by '(' gives a Call,
\* for a well-formed argument list the Call of the name and the arguments
\* in source order; on an identifier followed by anything else it gives the
\* Variable and has called the tokenizer once.
C7_CallOrVariable ==
    (pc = "Returned" /\ last.op = "ParseIdentifierExpr")
    => /\ (origin.kind = "expr" /\ origin.ast.kind = "Call" /\ HasDefaults)
            => last.r = origin.ast
       /\ (origin.kind = "expr" /\ origin.ast.kind = "Variable")
            => (last.r = origin.ast /\ last.ntok = 1)
       /\ (origin.kind = "words" /\ Len(origin.words) >= 2
                /\ origin.words[2] = W_lp)
            => last.r.kind \in {"Call", "nullptr"}
       /\ (origin.kind = "words"
                /\ (Len(origin.words) = 1 \/ origin.words[2] # W_lp))
            => (last.r = VariableExprAST(origin.words[1]) /\ last.ntok = 1)

\* the words ws have the shape Identifier '(' Identifier* ')' at their head,
\* the ')' being word k
ClosedAt(ws, k) ==
    /\ k \in 3..Len(ws)
    /\ IsIdentifierWord(ws[1])
    /\ ws[2] = W_lp
    /\ ws[k] = W_rp
    /\ \A j \in 3..(k - 1) : IsIdentifierWord(ws[j])

PrototypeShaped(ws) == \E k \in 3..Len(ws) : ClosedAt(ws, k)

\* C8: ParseExtern on extern name(p1 ... pn) gives Prototype(name, [p1..pn]);
\* on words after extern it gives a Prototype exactly when they begin with
\* Identifier '(' Identifier* ')', and a failure otherwise.
C8_PrototypeShape ==
    (pc = "Returned" /\ last.op = "ParseExtern")
    => /\ origin.kind = "extern" => last.r = origin.ast
       /\ origin.kind = "words" =>
            LET ws == Tail(origin.words)
            IN  /\ ~PrototypeShaped(ws) => last.r = Null
                /\ \A k \in 3..Len(ws) :
                      ClosedAt(ws, k)
                      => last.r = PrototypeAST(ws[1], SubSeq(ws, 3, k - 1))

\* a prototype of two different parameters, in their order
C8_Witness ==
    /\ pc = "Returned"
    /\ last.op = "ParseExtern"
    /\ last.r = PrototypeAST(W_f, <<W_x, W_y>>)

\* the first n tokens of a tokenizer with statics s
RECURSIVE Tokens(_, _)
Tokens(s, n) ==
    IF n = 0 THEN <<>>
    ELSE Let(GetTok(s), LAMBDA g : <<Token(g)>> \o Tokens(g.s, n - 1))

\* a text with every comment, from '#' up to the end of its line or of the
\* text, replaced by spaces
RECURSIVE Blank(_, _)
Blank(text, inComment) ==
    IF text = <<>> THEN <<>>
    ELSE IF Head(text) \in {Ord("\n"), Ord("\r")}
    THEN <<Head(text)>> \o Blank(Tail(text), FALSE)
    ELSE IF inComment \/ Head(text) = Ord("#")
    THEN <<Ord(" ")>> \o Blank(Tail(text), TRUE)
    ELSE <<Head(text)>> \o Blank(Tail(text), FALSE)

\* C9: the tokens the tokenizer has produced for a text are the tokens it
\* produces for the text with its comments replaced by whitespace.
C9_CommentsTransparent ==
    toks = Tokens(LexStart(Blank(origin.text, FALSE)), Len(toks))

\* a comment between two tokens, ended by a newline
C9_Witness ==
    /\ origin.text = Str(<<"1", "#", "x", "\n", "+">>)
    /\ Len(toks) = 3
    /\ toks[1].tok = tok_number
    /\ toks[2].tok = Ord("+")
    /\ toks[3].tok = tok_eof

\* C10: once the input is exhausted and the tokenizer has returned tok_eof,
\* the next call of the tokenizer returns tok_eof.
C10_EofIdempotent ==
    [][(toks # <<>> /\ toks[Len(toks)].tok = tok_eof /\ LastChar = EOF
            /\ input = <<>>)
       => toks'[Len(toks')].tok = tok_eof]_vars

\* tok_eof returned twice running after a token
C10_Witness ==
    /\ Len(toks) >= 3
    /\ toks[Len(toks) - 2].tok # tok_eof
    /\ toks[Len(toks) - 1].tok = tok_eof
    /\ toks[Len(toks)].tok = tok_eof
    /\ LastChar = EOF

===========================================================================
